---- MODULE Spec2Model ----
(***************************************************************************)
(* Screenplay markup converter (src/src/html.rs, status.rs, main.rs).      *)
(* A Rust `&str`/`String` is a sequence of one-character strings; a        *)
(* rendered fragment is a sequence of pieces, each markup literal of a     *)
(* format string being one piece and each character of interpolated text   *)
(* one piece, so two fragments are equal exactly when their bytes are.     *)
(***************************************************************************)
EXTENDS Integers, Sequences, FiniteSets, TLC

VARIABLES
    prog,       \* the entry point running: "gen_html", "get_status", "tests", "pair"
    src,        \* the input text, as the sequence of lines src.lines() yields
    cmd,        \* CmdInfo: range (Option<Range<u32>>) and temp
    segments,   \* Segments: lines (the collected vector), pos (the IntoIter cursor), term
    ctx,        \* Context: scene, title, subtitle
    result,     \* gen_html's `result` String
    pc,         \* position of the running entry point
    files,      \* the fs::write calls made so far, in order
    pulled,     \* history: one record per next_whole / Iterator::next call
    classified  \* history: one record per get_line call

vars == <<prog, src, cmd, segments, ctx, result, pc, files, pulled, classified>>

----------------------------------------------------------------------------
(* Option<T> *)
None == [some |-> FALSE]
Some(v) == [some |-> TRUE, val |-> v]

(* Characters. *)
LowerChars == <<"a","b","c","d","e","f","g","h","i","j","k","l","m","n","o","p","q","r","s","t","u","v","w","x","y","z">>
UpperChars == <<"A","B","C","D","E","F","G","H","I","J","K","L","M","N","O","P","Q","R","S","T","U","V","W","X","Y","Z">>
DigitChars == <<"0","1","2","3","4","5","6","7","8","9">>

\* the class a-z of the patterns
IsLower(c) == \E i \in 1..Len(LowerChars) : LowerChars[i] = c
\* the class A-Z of the patterns
IsUpper(c) == \E i \in 1..Len(UpperChars) : UpperChars[i] = c
IsDigit(c) == \E i \in 1..Len(DigitChars) : DigitChars[i] = c
\* char::is_whitespace, and \s of the patterns
is_whitespace(c) == c \in {" ", "\t"}
\* \w of the patterns
IsWord(c) == IsLower(c) \/ IsUpper(c) \/ IsDigit(c) \/ c = "_"

\* char upper-casing, as str::to_uppercase / to_ascii_uppercase apply it
UpperChar(c) ==
    IF IsLower(c)
    THEN UpperChars[CHOOSE i \in 1..Len(LowerChars) : LowerChars[i] = c]
    ELSE c

to_uppercase(s) == [i \in 1..Len(s) |-> UpperChar(s[i])]

(* str primitives. *)
RECURSIVE trim_start(_)
trim_start(s) ==
    IF s # <<>> /\ is_whitespace(Head(s)) THEN trim_start(Tail(s)) ELSE s

RECURSIVE trim_end(_)
trim_end(s) ==
    IF s # <<>> /\ is_whitespace(s[Len(s)])
    THEN trim_end(SubSeq(s, 1, Len(s) - 1))
    ELSE s

trim(s) == trim_end(trim_start(s))

\* pat occurs in s at index i
StartsAt(s, i, pat) ==
    /\ i >= 1
    /\ i + Len(pat) - 1 <= Len(s)
    /\ \A k \in 1..Len(pat) : s[i + k - 1] = pat[k]

contains(s, pat) == \E i \in 1..Len(s) : StartsAt(s, i, pat)

\* index of the first occurrence of pat in s (contains(s, pat) assumed)
find(s, pat) ==
    CHOOSE i \in 1..Len(s) :
        StartsAt(s, i, pat) /\ \A j \in 1..(i - 1) : ~StartsAt(s, j, pat)

\* str::replace: every non-overlapping occurrence, left to right
RECURSIVE replace(_, _, _)
replace(s, pat, rep) ==
    IF s = <<>> THEN <<>>
    ELSE IF StartsAt(s, 1, pat)
         THEN rep \o replace(SubSeq(s, Len(pat) + 1, Len(s)), pat, rep)
         ELSE <<Head(s)>> \o replace(Tail(s), pat, rep)

\* [&str]::join
RECURSIVE join(_, _)
join(text, sep) ==
    IF text = <<>> THEN <<>>
    ELSE IF Len(text) = 1 THEN text[1]
         ELSE text[1] \o sep \o join(Tail(text), sep)

\* u32::to_string
RECURSIVE to_string(_)
to_string(n) ==
    IF n < 10 THEN <<DigitChars[n + 1]>>
    ELSE to_string(n \div 10) \o <<DigitChars[(n % 10) + 1]>>

----------------------------------------------------------------------------
(* Line preprocessor and segmenter. *)

CommentMarker == <<"*"," ">>
Sentinel == <<"*","*","*">>

\* trim_ignored: line.split("* ").next().unwrap().trim(), or line.trim()
trim_ignored(num, line) ==
    IF contains(line, CommentMarker)
    THEN <<num, trim(SubSeq(line, 1, find(line, CommentMarker) - 1))>>
    ELSE <<num, trim(line)>>

\* (mutant) the lines numbered after the empty ones are dropped
SegmentsNew_renumbered(text) ==
    LET kept == SelectSeq([i \in 1..Len(text) |-> trim_ignored(0, text[i])[2]],
                          LAMBDA l : l # <<>>)
    IN  [lines |-> [i \in 1..Len(kept) |-> <<i - 1, kept[i]>>],
         pos   |-> 1,
         term  |-> FALSE]

\* Segments::new: enumerate (0-based), trim_ignored, drop the empty lines
SegmentsNew(text) ==
    LET mapped == [i \in 1..Len(text) |-> trim_ignored(i - 1, text[i])]
    IN  [lines |-> SelectSeq(mapped, LAMBDA p : p[2] # <<>>),
         pos   |-> 1,
         term  |-> FALSE]

\* (mutant) the stripped line pushed without `.trim()`
RECURSIVE Continuation_untrimmed(_, _, _, _, _)
Continuation_untrimmed(ls, line, val, text, p) ==
    IF val # <<>> /\ val[Len(val)] = "\\"
    THEN LET pushed == Append(text, SubSeq(val, 1, Len(val) - 1))
         IN  IF p > Len(ls)
             THEN [item |-> None, pos |-> p, term |-> FALSE, met |-> FALSE]
             ELSE IF ls[p][2] = Sentinel
                  THEN [item |-> Some(<<line + 1, pushed>>), pos |-> p + 1,
                        term |-> TRUE, met |-> TRUE]
                  ELSE Continuation_untrimmed(ls, line, ls[p][2], pushed, p + 1)
    ELSE [item |-> Some(<<line + 1, Append(text, val)>>), pos |-> p,
          term |-> FALSE, met |-> FALSE]

\* the `while let Some(strip) = val.strip_suffix('\\')` loop of next_whole:
\* line is the segment's 0-based number, val the line in hand, text the
\* fragments pushed so far, p the cursor (index of the next unread line)
RECURSIVE Continuation(_, _, _, _, _)
Continuation(ls, line, val, text, p) ==
    IF val # <<>> /\ val[Len(val)] = "\\"
    THEN LET pushed == Append(text, trim(SubSeq(val, 1, Len(val) - 1)))
         IN  IF p > Len(ls)
             THEN [item |-> None, pos |-> p, term |-> FALSE, met |-> FALSE]
             ELSE IF ls[p][2] = Sentinel
                  THEN [item |-> Some(<<line + 1, pushed>>), pos |-> p + 1,
                        term |-> TRUE, met |-> TRUE]
                  ELSE Continuation(ls, line, ls[p][2], pushed, p + 1)
    ELSE [item |-> Some(<<line + 1, Append(text, val)>>), pos |-> p,
          term |-> FALSE, met |-> FALSE]

\* the sentinel met where a segment would start
AtSegmentStart(s) ==
    [item |-> None, pos |-> s.pos + 1, term |-> FALSE, met |-> TRUE]

\* Segments::next_whole on the value s: the item returned, the cursor and
\* the flag afterwards; met records that this call read the sentinel line
next_whole(s) ==
    IF s.term THEN [item |-> None, pos |-> s.pos, term |-> TRUE, met |-> FALSE]
    ELSE IF s.pos > Len(s.lines)
         THEN [item |-> None, pos |-> s.pos, term |-> FALSE, met |-> FALSE]
         ELSE IF s.lines[s.pos][2] = Sentinel
              THEN AtSegmentStart(s)
              ELSE Continuation(s.lines, s.lines[s.pos][1], s.lines[s.pos][2],
                                <<>>, s.pos + 1)

\* the Segments value after a call that returned r
Advance(s, r) == [s EXCEPT !.pos = r.pos, !.term = r.term]

\* str::split_once(char::is_whitespace)
split_once_ws(first) ==
    IF \E i \in 1..Len(first) : is_whitespace(first[i])
    THEN LET i == CHOOSE k \in 1..Len(first) :
                      /\ is_whitespace(first[k])
                      /\ \A j \in 1..(k - 1) : ~is_whitespace(first[j])
         IN  Some(<<SubSeq(first, 1, i - 1), SubSeq(first, i + 1, Len(first))>>)
    ELSE None

\* the Segment Iterator::next builds from an item of next_whole
SegmentOf(item) ==
    LET line  == item[1]
        first == Head(item[2])
        text  == Tail(item[2])
        sp    == split_once_ws(first)
    IN  IF sp.some
        THEN [line |-> line, mode |-> sp.val[1],
              text |-> <<trim(sp.val[2])>> \o text]
        ELSE [line |-> line, mode |-> first, text |-> <<>>]

\* Iterator::next for Segments
Iterator_next(s) ==
    LET r == next_whole(s)
    IN  [r EXCEPT !.item = IF r.item.some THEN Some(SegmentOf(r.item.val))
                           ELSE None]

----------------------------------------------------------------------------
(* Classifier / renderer. *)

\* PAT_HEAD: ^[^a-z]+$
PAT_HEAD(s) == s # <<>> /\ \A k \in 1..Len(s) : ~IsLower(s[k])

\* PAT_SCENE: (INT\.|EXT\.) [^a-z]+ - [^a-z]+, searched anywhere in s
PAT_SCENE(s) ==
    \E i \in 1..Len(s) :
        /\ (StartsAt(s, i, <<"I","N","T",".">>) \/ StartsAt(s, i, <<"E","X","T",".">>))
        /\ i + 4 <= Len(s) /\ s[i + 4] = " "
        /\ \E j \in (i + 6)..Len(s) :
              /\ \A k \in (i + 5)..(j - 1) : ~IsLower(s[k])
              /\ StartsAt(s, j, <<" ","-"," ">>)
              /\ j + 3 <= Len(s)
              /\ ~IsLower(s[j + 3])

\* one repetition of (?:(\([A-Z][^\)]*\) )?([^\(]+)) starting at index p
SpeechRun(s, p) ==
    /\ p <= Len(s)
    /\ \/ s[p] # "("
       \/ /\ s[p] = "("
          /\ p + 1 <= Len(s) /\ IsUpper(s[p + 1])
          /\ \E q \in (p + 2)..Len(s) :
                /\ \A r \in (p + 2)..(q - 1) : s[r] # ")"
                /\ s[q] = ")"
                /\ q + 2 <= Len(s)
                /\ s[q + 1] = " "
                /\ s[q + 2] # "("

\* PAT_SPEECH:
\* (\w+(?: \((?:O\.S\.|V\.O\.)\))?):\s+(?:(\([A-Z][^\)]*\) )?([^\(]+))+
\* searched anywhere in s
PAT_SPEECH(s) ==
    \E k \in 1..Len(s) :
        /\ IsWord(s[k])
        /\ \E m \in {k + 1, k + 8} :
              /\ \/ m = k + 1
                 \/ StartsAt(s, k + 1, <<" ","(","O",".","S",".",")">>)
                 \/ StartsAt(s, k + 1, <<" ","(","V",".","O",".",")">>)
              /\ m + 1 <= Len(s)
              /\ s[m] = ":"
              /\ is_whitespace(s[m + 1])
              /\ \E p \in (m + 2)..Len(s) :
                    /\ \A q \in (m + 1)..(p - 1) : is_whitespace(s[q])
                    /\ SpeechRun(s, p)

\* first index >= p of s holding c, or Len(s) + 1
IndexFrom(s, p, c) ==
    IF \E i \in p..Len(s) : s[i] = c
    THEN CHOOSE i \in p..Len(s) : s[i] = c /\ \A j \in p..(i - 1) : s[j] # c
    ELSE Len(s) + 1

\* first index >= p of s not holding whitespace, or Len(s) + 1
SkipSpace(s, p) ==
    IF \E i \in p..Len(s) : ~is_whitespace(s[i])
    THEN CHOOSE i \in p..Len(s) :
            ~is_whitespace(s[i]) /\ \A j \in p..(i - 1) : is_whitespace(s[j])
    ELSE Len(s) + 1

\* PAT_EXTRACT: \s*(\([^\)]+\))?((?:\s+[^\(]+)+) matched at index p, greedy
\* with backtracking: the span of group 1 (when it took part), of group 2,
\* and the index after the match.  Group 2 starting at a runs to the next
\* "(" (or the end) and needs a whitespace at a and one more character.
ExtractAt(s, p) ==
    LET a == SkipSpace(s, p)                     \* after the greedy \s*
        q == IndexFrom(s, a + 1, ")")            \* the closing paren
        RunEnd(from) == IndexFrom(s, from + 1, "(")
        RunOk(from) ==
            /\ from <= Len(s)
            /\ is_whitespace(s[from])
            /\ RunEnd(from) >= from + 2
        Match(paren, from) ==
            [ok |-> TRUE, paren |-> paren,
             run |-> SubSeq(s, from, RunEnd(from) - 1), end |-> RunEnd(from)]
    IN  IF /\ a <= Len(s) /\ s[a] = "("
           /\ q <= Len(s) /\ q >= a + 2
           /\ RunOk(q + 1)
        THEN Match(Some(SubSeq(s, a, q)), q + 1)
        ELSE IF a - 1 >= p /\ RunOk(a - 1) THEN Match(None, a - 1)
        ELSE IF a - 2 >= p /\ RunOk(a - 2) THEN Match(None, a - 2)
        ELSE [ok |-> FALSE]

\* the writeln! calls of the captures_iter loop over content[p..]
RECURSIVE ExtractFrom(_, _)
ExtractFrom(s, p) ==
    IF p > Len(s) THEN <<>>
    ELSE LET m == ExtractAt(s, p)
         IN  IF ~m.ok THEN ExtractFrom(s, p + 1)
             ELSE (IF m.paren.some
                   THEN <<"<div class=\"parens\">">> \o trim(m.paren.val)
                            \o <<"</div>\n">>
                   ELSE <<>>)
                  \o <<"<div class=\"speech\">">> \o trim(m.run) \o <<"</div>\n">>
                  \o ExtractFrom(s, m.end)

\* the named-speech arm: split at the first ':', name div, then the runs
NamedSpeech(whole) ==
    LET c       == IndexFrom(whole, 1, ":")
        name    == SubSeq(whole, 1, c - 1)
        content == SubSeq(whole, c + 1, Len(whole))
    IN  <<"<div class=\"name\">">> \o to_uppercase(name) \o <<"</div>\n">>
            \o ExtractFrom(content, 1)

(* Result<String, HtmlError> of get_line, with the counter it leaves. *)
Ok(out, n) == [kind |-> "ok", out |-> out, scene |-> n]
SyntaxError(line, expected, after, n) ==
    [kind |-> "err", line |-> line, expected |-> expected, after |-> after,
     scene |-> n]
\* a panic (arithmetic overflow / capacity overflow) unwinding out of get_line
Panicked(n) == [kind |-> "panic", scene |-> n]

FillWidth == 4

\* vec!["&nbsp;"; count].join("")
Pad(count) == [i \in 1..count |-> "&nbsp;"]

\* the three lines after `ctx.scene += 1` of both scene arms: n is the
\* counter after the increment; `4 - len` is a usize subtraction, which
\* panics on overflow in a debug build and, wrapped to 2^64 - 1 in a
\* release build, makes vec! panic with a capacity overflow
SceneFragment(n, shown) ==
    LET digits == to_string(n)
    IN  IF Len(digits) > FillWidth THEN Panicked(n)
        ELSE Ok(<<"<div class=\"scene\"><h1>">>
                    \o Pad(FillWidth - Len(digits)) \o digits \o <<" ">>
                    \o shown \o <<"</h1></div>\n">>, n)

\* ctx.scene += 1: the u32 cannot overflow, a counter of five digits already
\* ends the run in SceneFragment
Increment(n) == n + 1

\* (mutant) the explicit arm without its `ctx.scene += 1`
ExplicitScene_noincrement(c, text) == SceneFragment(c.scene, to_uppercase(text))

\* the `"scene" if !text.is_empty() && PAT_SCENE.is_match(&text)` arm
ExplicitScene(c, text) == SceneFragment(Increment(c.scene), to_uppercase(text))

\* the scene branch of the `_` arm
ImplicitScene(c, whole) == SceneFragment(Increment(c.scene), whole)

ContentModes == {<<"d","i","r","e","c","t">>, <<"p","a","r","e","n","s">>, <<"s","p","e","e","c","h">>, <<"s","u","b","h","e","a","d">>, <<"t","r","a","n","s">>, <<"c","h","y","r","o","n">>}
BareModes == {<<"m","o","n","t","a","g","e">>, <<"m","o","n","-","e","n","d">>}
Keywords == ContentModes \cup BareModes \cup {<<"T","O","D","O">>, <<"s","c","e","n","e">>}

\* the `_` arm: format!("{} {}", mode, text).trim()
Whole(mode, text) == trim(mode \o <<" ">> \o text)

\* the text get_line matches on: join, then the two placeholder replacements
Joined(segment, c) ==
    replace(replace(join(segment.text, <<" ">>), <<"$","t","i","t","l","e">>, c.title),
            <<"$","s","u","b","t","i","t","l","e">>, c.subtitle)

get_line(segment, c) ==
    LET line == segment.line
        mode == segment.mode
        text == Joined(segment, c)
        quoted == <<"mode declaration '">> \o mode \o <<"'">>
        whole == Whole(mode, text)
    IN  IF mode = <<"m","o","n","t","a","g","e">> /\ text = <<>>
        THEN Ok(<<"<div class=\"header\">BEGIN MONTAGE:</div>\n">>, c.scene)
        ELSE IF mode = <<"m","o","n","-","e","n","d">> /\ text = <<>>
        THEN Ok(<<"<div class=\"header\">END MONTAGE.</div>\n">>, c.scene)
        ELSE IF mode = <<"T","O","D","O">> /\ text = <<>>
        THEN Ok(<<"<div class=\"header\">TODO ==============================</div>\n">>,
                c.scene)
        ELSE IF mode = <<"T","O","D","O">> /\ text # <<>>
        THEN Ok(<<"<div class=\"header\">TODO == ">> \o to_uppercase(text)
                    \o <<"</div>\n">>, c.scene)
        ELSE IF mode = <<"d","i","r","e","c","t">> /\ text # <<>>
        THEN Ok(<<"<div class=\"direct\">">> \o text \o <<"</div>\n">>, c.scene)
        ELSE IF mode = <<"p","a","r","e","n","s">> /\ text # <<>>
        THEN Ok(<<"<div class=\"parens\">(">> \o text \o <<")</div>\n">>, c.scene)
        ELSE IF mode = <<"s","p","e","e","c","h">> /\ text # <<>>
        THEN Ok(<<"<div class=\"speech\">">> \o text \o <<"</div>\n">>, c.scene)
        ELSE IF mode = <<"s","u","b","h","e","a","d">> /\ text # <<>>
        THEN Ok(<<"<div class=\"header\"><h2>">> \o to_uppercase(text)
                    \o <<"</h2></div>\n">>, c.scene)
        ELSE IF mode = <<"t","r","a","n","s">> /\ text # <<>>
        THEN Ok(<<"<div class=\"trans\">">> \o to_uppercase(text)
                    \o <<"</div>\n">>, c.scene)
        ELSE IF mode = <<"c","h","y","r","o","n">> /\ text # <<>>
        THEN Ok(<<"<div class=\"direct\">CHYRON: ">> \o text \o <<"</div>\n">>,
                c.scene)
        ELSE IF mode = <<"s","c","e","n","e">> /\ text # <<>> /\ PAT_SCENE(text)
        THEN ExplicitScene(c, text)
        ELSE IF mode \in BareModes
        THEN SyntaxError(line, "newline", quoted, c.scene)
        ELSE IF mode \in ContentModes
        THEN SyntaxError(line, "content", quoted, c.scene)
        ELSE IF mode = <<"s","c","e","n","e">>
        THEN SyntaxError(line, "scene heading", <<"scene declaration">>, c.scene)
        ELSE IF PAT_SCENE(whole)
        THEN ImplicitScene(c, whole)
        ELSE IF PAT_HEAD(whole)
        THEN Ok(<<"<div class=\"header\">">> \o whole \o <<"</div>">>, c.scene)
        ELSE IF PAT_SPEECH(whole)
        THEN Ok(NamedSpeech(whole), c.scene)
        ELSE SyntaxError(line, "mode declaration", <<"new line">>, c.scene)

----------------------------------------------------------------------------
(* Bounds and input sets. *)

MaxBody == 3        \* lines after title and subtitle in a gen_html input
MaxSegLines == 4    \* physical lines of a segmenter input
MaxPulls == 5       \* next_whole calls a test makes on one Segments value

SeqsUpTo(S, n) == UNION {[1..k -> S] : k \in 0..n}

\* physical lines of the gen_html inputs
GenLines ==
    {<<"T">>, <<"I","N","T","."," ","A"," ","-"," ","B">>, <<"s","c","e","n","e"," ","I","N","T","."," ","A"," ","-"," ","B">>, <<"x">>, <<"*","*","*">>, <<"*","*","*"," ">>, <<"d"," ","\\">>}

\* a document of three scenes, each followed by a line of its own
ThreeScenes ==
    <<<<"T">>, <<"S">>, <<"I","N","T","."," ","A"," ","-"," ","B">>, <<"T">>, <<"s","c","e","n","e"," ","I","N","T","."," ","A"," ","-"," ","B">>, <<"T">>,
      <<"I","N","T","."," ","A"," ","-"," ","B">>, <<"T">>>>

\* gen_html inputs: every text of at most two lines, and a title and a
\* subtitle line followed by every body of at most MaxBody lines
GenDocs ==
    SeqsUpTo(GenLines, 2)
        \cup {<<<<"T">>, <<"S">>>> \o body : body \in SeqsUpTo(GenLines, MaxBody)}
        \cup {ThreeScenes}

\* physical lines of the segmenter inputs
SegLines ==
    {<<" ","a"," ","b"," ">>, <<"m"," ","\\">>, <<>>, <<"*"," ","c">>, <<"a"," ","*"," ","c"," ","\\">>, <<"b"," ","c"," ","\\"," ","*"," ","c">>, <<"*","*","*">>}

SegDocs == SeqsUpTo(SegLines, MaxSegLines)

\* segment lines of the get_line harness
PairLines ==
    {<<"I","N","T","."," ","A"," ","-"," ","B">>, <<"E","X","T","."," ","L","O","C"," ","-"," ","D","A","Y">>, <<"I","N","T","."," ","A"," ","-"," ","B"," ","c">>, <<"x"," ","I","N","T","."," ","A"," ","-"," ","B">>,
     <<"E","X","T","."," "," ","A"," ","-"," ","B">>, <<"T">>, <<"x">>, <<"a","l",":"," ","h","i">>, <<"a","l"," ","(","V",".","O",".",")",":"," ","(","M","o","o","d",")"," ","h","i"," ","(","L","o","w",")"," ","y","o">>,
     <<"d","i","r","e","c","t"," ","$","t","i","t","l","e">>, <<"d","i","r","e","c","t">>, <<"m","o","n","t","a","g","e">>, <<"m","o","n","t","a","g","e"," ","x">>, <<"s","c","e","n","e"," ","x">>,
     <<"T","O","D","O">>, <<"T","O","D","O"," ","x">>, <<"t","r","a","n","s"," ","c","u","t"," ","t","o">>, <<"c","h","y","r","o","n"," ","$","s","u","b","t","i","t","l","e">>}

\* counter values a Context holds before a call of the get_line harness
SceneStarts == {0, 1, 8, 9, 98, 99, 998, 999, 9998, 9999}

(* get_command: the Range<u32> built from the argument of -s / --scenes. *)
scenes_pair(start, stop) == Some([start |-> start, end |-> stop + 1])
scenes_single(start) == Some([start |-> start, end |-> start + 1])

\* cmd.range for no -s, "-s 1", "-s 2", "-s 1-2"
Ranges == {None, scenes_single(1), scenes_single(2), scenes_pair(1, 2)}

----------------------------------------------------------------------------
(* History records. *)

\* one call on `segments` that returned r: the cursor before and after, the
\* flag before, the item returned, whether the call read the sentinel line, and the item of
\* the underlying next_whole call
Pull(via, r, whole) ==
    [via |-> via, from |-> segments.pos, to |-> r.pos, term |-> segments.term,
     item |-> r.item, met |-> r.met, whole |-> whole]

\* one get_line call: the segment, the counter before, the result
Call(segment, before, res) ==
    [segment |-> segment, before |-> before, res |-> res]

NoSegments == [lines |-> <<>>, pos |-> 1, term |-> FALSE]
NewContext == [scene |-> 0, title |-> <<>>, subtitle |-> <<>>]

----------------------------------------------------------------------------
(* gen_html. *)

PageOpen == "<html><head><link rel=\"stylesheet\" href=\"../res/style.css\"/></head><body><div class=\"page\">\n"
PageClose == "</div></body></html>"

\* the initial value of `result`
Preamble(c, range) ==
    IF range.some THEN <<PageOpen>>
    ELSE <<PageOpen, "<div class=\"title\"><h1>">> \o c.title
            \o <<"</h1></div>\n<div class=\"subtitle\"><h2>">> \o c.subtitle
            \o <<"</h2></div>\n">>

\* (mutant) the range taken as closed at its end
range_contains_closed(r, x) == r.start <= x /\ x <= r.end

\* Range::contains
range_contains(r, x) == r.start <= x /\ x < r.end

\* what the loop body does with a fragment, from cmd.range and the counter
\* get_line left: push it, skip it, or leave the loop
Filter(range, n) ==
    IF ~range.some THEN "push"
    ELSE IF range_contains(range.val, n) THEN "push"
    ELSE IF n > range.val.end THEN "break"
    ELSE "skip"

\* (mutant) what was accumulated is written out before the error returns
Fail_flush(err) ==
    /\ pc' = "err"
    /\ files' = Append(files, [path |-> "html", content |-> result, ok |-> TRUE])
    /\ UNCHANGED result

\* the `?` on a failed get_line: the error is returned, nothing else happens
Fail(err) ==
    /\ pc' = "err"
    /\ UNCHANGED <<result, files>>

\* fs::read_to_string and Segments::new
gen_html_read ==
    /\ prog = "gen_html" /\ pc = "read"
    /\ \/ /\ segments' = SegmentsNew(src)
          /\ pc' = "title"
       \/ /\ pc' = "err"                       \* IoError
          /\ UNCHANGED segments
    /\ UNCHANGED <<prog, src, cmd, ctx, result, files, pulled, classified>>

\* title: segments.next_whole().ok_or(...)?.1.join(" ")
gen_html_title ==
    /\ prog = "gen_html" /\ pc = "title"
    /\ LET r == next_whole(segments)
       IN  /\ segments' = Advance(segments, r)
           /\ pulled' = Append(pulled, Pull("next_whole", r, r.item))
           /\ IF r.item.some
              THEN /\ ctx' = [ctx EXCEPT !.title = join(r.item.val[2], <<" ">>)]
                   /\ pc' = "subtitle"
              ELSE /\ pc' = "err"
                   /\ UNCHANGED ctx
    /\ UNCHANGED <<prog, src, cmd, result, files, classified>>

\* subtitle likewise, then the initial `result`
gen_html_subtitle ==
    /\ prog = "gen_html" /\ pc = "subtitle"
    /\ LET r == next_whole(segments)
       IN  /\ segments' = Advance(segments, r)
           /\ pulled' = Append(pulled, Pull("next_whole", r, r.item))
           /\ IF r.item.some
              THEN /\ ctx' = [ctx EXCEPT !.subtitle = join(r.item.val[2], <<" ">>)]
                   /\ result' = Preamble(ctx', cmd.range)
                   /\ pc' = "segments"
              ELSE /\ pc' = "err"
                   /\ UNCHANGED <<ctx, result>>
    /\ UNCHANGED <<prog, src, cmd, files, classified>>

\* one iteration of `for segment in segments`
gen_html_segment ==
    /\ prog = "gen_html" /\ pc = "segments"
    /\ LET w == next_whole(segments)
           r == Iterator_next(segments)
       IN  /\ segments' = Advance(segments, r)
           /\ pulled' = Append(pulled, Pull("next", r, w.item))
           /\ IF ~r.item.some
              THEN /\ pc' = "write"
                   /\ UNCHANGED <<ctx, result, classified, files>>
              ELSE LET g == get_line(r.item.val, ctx)
                   IN  /\ classified' = Append(classified,
                                               Call(r.item.val, ctx.scene, g))
                       /\ ctx' = [ctx EXCEPT !.scene = g.scene]
                       /\ IF g.kind = "panic"
                          THEN pc' = "panic" /\ UNCHANGED <<result, files>>
                          ELSE IF g.kind = "err"
                          THEN Fail(g)
                          ELSE LET f == Filter(cmd.range, g.scene)
                               IN  /\ result' = IF f = "push"
                                                THEN result \o g.out
                                                ELSE result
                                   /\ pc' = IF f = "break" THEN "write"
                                            ELSE "segments"
                                   /\ files' = files
    /\ UNCHANGED <<prog, src, cmd>>

\* a fs::write call
Written(path, content, ok) == [path |-> path, content |-> content, ok |-> ok]

\* the closing push_str and the two fs::write calls
gen_html_write ==
    /\ prog = "gen_html" /\ pc = "write"
    /\ result' = result \o <<PageClose>>
    /\ \E tempOk, htmlOk \in BOOLEAN :
          IF cmd.temp /\ ~tempOk
          THEN /\ files' = Append(files, Written("file_root.html", result', FALSE))
               /\ pc' = "err"                  \* IoError
          ELSE /\ files' =
                     (IF cmd.temp
                      THEN Append(files, Written("file_root.html", result', TRUE))
                      ELSE files)
                        \o <<Written("html", result', htmlOk)>>
               /\ pc' = IF htmlOk THEN "done" ELSE "err"
    /\ UNCHANGED <<prog, src, cmd, segments, ctx, pulled, classified>>

----------------------------------------------------------------------------
(* get_status. *)

\* fs::read_to_string(..).unwrap() and Segments::new
get_status_read ==
    /\ prog = "get_status" /\ pc = "read"
    /\ \/ /\ segments' = SegmentsNew(src)
          /\ pc' = "skip1"
       \/ /\ pc' = "panic"
          /\ UNCHANGED segments
    /\ UNCHANGED <<prog, src, cmd, ctx, result, files, pulled, classified>>

\* the two `segments.next();` statements, results dropped
get_status_skip ==
    /\ prog = "get_status" /\ pc \in {"skip1", "skip2"}
    /\ LET w == next_whole(segments)
           r == Iterator_next(segments)
       IN  /\ segments' = Advance(segments, r)
           /\ pulled' = Append(pulled, Pull("next", r, w.item))
    /\ pc' = IF pc = "skip1" THEN "skip2" ELSE "loop"
    /\ UNCHANGED <<prog, src, cmd, ctx, result, files, classified>>

\* one iteration of the `for` over what is left
get_status_loop ==
    /\ prog = "get_status" /\ pc = "loop"
    /\ LET w == next_whole(segments)
           r == Iterator_next(segments)
       IN  /\ segments' = Advance(segments, r)
           /\ pulled' = Append(pulled, Pull("next", r, w.item))
           /\ pc' = IF r.item.some THEN "loop" ELSE "done"
    /\ UNCHANGED <<prog, src, cmd, ctx, result, files, classified>>

----------------------------------------------------------------------------
(* tests::comments, tests::line_reach: next_whole called over and over. *)

tests_next_whole ==
    /\ prog = "tests" /\ pc = "pull"
    /\ Len(pulled) < MaxPulls
    /\ LET r == next_whole(segments)
       IN  /\ segments' = Advance(segments, r)
           /\ pulled' = Append(pulled, Pull("next_whole", r, r.item))
    /\ UNCHANGED <<prog, src, cmd, ctx, result, pc, files, classified>>

----------------------------------------------------------------------------
(* tests::scenes: one line as it stands, then behind the `scene` keyword,   *)
(* each classified by get_line against a Context holding the same counter   *)
(* value.                                                                   *)

\* Segments::new(line).next(), classified against c
Classify(line, c) ==
    LET r == Iterator_next(SegmentsNew(<<line>>))
    IN  IF r.item.some
        THEN Some(Call(r.item.val, c.scene, get_line(r.item.val, c)))
        ELSE None

pair_first ==
    /\ prog = "pair" /\ pc = "first"
    /\ LET k == Classify(src[1], ctx)
       IN  IF k.some
           THEN /\ classified' = Append(classified, k.val)
                /\ pc' = "second"
           ELSE /\ pc' = "done"
                /\ UNCHANGED classified
    /\ UNCHANGED <<prog, src, cmd, segments, ctx, result, files, pulled>>

pair_second ==
    /\ prog = "pair" /\ pc = "second"
    /\ LET k == Classify(<<"s","c","e","n","e"," ">> \o src[1], ctx)
       IN  /\ classified' = IF k.some THEN Append(classified, k.val)
                            ELSE classified
           /\ pc' = "done"
    /\ UNCHANGED <<prog, src, cmd, segments, ctx, result, files, pulled>>

----------------------------------------------------------------------------
(* Specifications. *)

InitCommon ==
    /\ ctx = NewContext
    /\ result = <<>>
    /\ files = <<>>
    /\ pulled = <<>>
    /\ classified = <<>>

\* gen_html entered with cmd, before the input is read
Init ==
    /\ prog = "gen_html"
    /\ src \in GenDocs
    /\ cmd \in [range : Ranges, temp : BOOLEAN]
    /\ segments = NoSegments
    /\ pc = "read"
    /\ InitCommon

Next ==
    \/ gen_html_read
    \/ gen_html_title
    \/ gen_html_subtitle
    \/ gen_html_segment
    \/ gen_html_write

Spec == Init /\ [][Next]_vars

NoCmd == [range |-> None, temp |-> FALSE]

\* the segmenter under get_status and under the tests' repeated next_whole
InitSeg ==
    /\ src \in SegDocs
    /\ cmd = NoCmd
    /\ \/ prog = "get_status" /\ pc = "read" /\ segments = NoSegments
       \/ prog = "tests" /\ pc = "pull" /\ segments = SegmentsNew(src)
    /\ InitCommon

NextSeg ==
    \/ get_status_read
    \/ get_status_skip
    \/ get_status_loop
    \/ tests_next_whole

SpecSeg == InitSeg /\ [][NextSeg]_vars

\* get_status alone
InitStatus ==
    /\ prog = "get_status"
    /\ src \in SegDocs
    /\ cmd = NoCmd
    /\ segments = NoSegments
    /\ pc = "read"
    /\ InitCommon

NextStatus ==
    \/ get_status_read
    \/ get_status_skip
    \/ get_status_loop

SpecStatus == InitStatus /\ [][NextStatus]_vars

\* get_line on one line, bare and behind `scene`
InitPair ==
    /\ prog = "pair"
    /\ src \in {<<l>> : l \in PairLines}
    /\ cmd = NoCmd
    /\ segments = NoSegments
    /\ pc = "first"
    /\ \E n \in SceneStarts :
          ctx = [scene |-> n, title |-> <<"T">>, subtitle |-> <<"S">>]
    /\ result = <<>>
    /\ files = <<>>
    /\ pulled = <<>>
    /\ classified = <<>>

NextPair == pair_first \/ pair_second

SpecPair == InitPair /\ [][NextPair]_vars

----------------------------------------------------------------------------
(* Properties. *)

SceneOpen == "<div class=\"scene\"><h1>"

\* the segment meets the conditions of one of the two scene arms
ByKeyword(segment, c) ==
    /\ segment.mode = <<"s","c","e","n","e">>
    /\ Joined(segment, c) # <<>>
    /\ PAT_SCENE(Joined(segment, c))
ByPattern(segment, c) ==
    /\ segment.mode \notin Keywords
    /\ PAT_SCENE(Whole(segment.mode, Joined(segment, c)))
Accepted(segment, c) == ByKeyword(segment, c) \/ ByPattern(segment, c)

\* a rendered scene heading
IsSceneOut(res) == res.kind = "ok" /\ res.out # <<>> /\ Head(res.out) = SceneOpen

\* the filler glyphs a scene heading starts with
Fillers(out) ==
    Cardinality({i \in 2..Len(out) : \A j \in 2..i : out[j] = "&nbsp;"})

\* the numeral of a scene heading: the pieces between the fillers and the
\* first blank
Numeral(out) ==
    LET from == Fillers(out) + 2
        to   == IndexFrom(out, from, " ")
    IN  SubSeq(out, from, to - 1)

\* accepted scene headings among the first i get_line calls
HeadingsUpTo(i) ==
    Cardinality({j \in 1..i : Accepted(classified[j].segment, ctx)})

\* C1: the k-th accepted scene heading, by keyword or by pattern, is emitted
\* with ordinal k; the counter starts at 0, goes up by one at each accepted
\* heading and is left alone by every other segment, failing ones included
C1_SceneOrdinals ==
    /\ ctx.scene = HeadingsUpTo(Len(classified))
    /\ \A i \in 1..Len(classified) :
          LET e == classified[i]
          IN  /\ e.before = HeadingsUpTo(i - 1)
              /\ IF Accepted(e.segment, ctx)
                 THEN /\ IsSceneOut(e.res)
                      /\ Numeral(e.res.out) = to_string(HeadingsUpTo(i))
                      /\ e.res.scene = e.before + 1
                 ELSE /\ ~IsSceneOut(e.res)
                      /\ e.res.scene = e.before

\* a heading by pattern, then one by keyword, then a segment that fails
C1_Witness ==
    /\ Len(classified) = 3
    /\ ByPattern(classified[1].segment, ctx)
    /\ ByKeyword(classified[2].segment, ctx)
    /\ classified[3].res.kind = "err"
    /\ ctx.scene = 2

\* C2: under a range [low, high) no segment is classified once the counter
\* has reached high
C2_StopsAtHigh ==
    cmd.range.some =>
        \A i \in 1..Len(classified) : classified[i].before < cmd.range.val.end

\* the fragments kept of the calls so far: all without a range, else those
\* whose call left the counter in [low, high)
RECURSIVE KeptFragments(_)
KeptFragments(calls) ==
    IF calls = <<>> THEN <<>>
    ELSE LET e == calls[Len(calls)]
             n == e.res.scene
         IN  KeptFragments(SubSeq(calls, 1, Len(calls) - 1))
                \o (IF e.res.kind = "ok"
                       /\ (cmd.range.some =>
                              /\ cmd.range.val.start <= n
                              /\ n < cmd.range.val.end)
                    THEN e.res.out
                    ELSE <<>>)

\* C3: the body is the concatenation, in order, of the fragments whose call
\* left the counter in [low, high), of all fragments without a range; this
\* is what every write holds, between preamble and closing
C3_BodyIsFiltered ==
    /\ pc \in {"segments", "write"} =>
          result = Preamble(ctx, cmd.range) \o KeptFragments(classified)
    /\ \A i \in 1..Len(files) :
          files[i].content =
              Preamble(ctx, cmd.range) \o KeptFragments(classified)
                  \o <<PageClose>>

\* a document written under a range, with a fragment below the range, one
\* inside and one at its end
C3_Witness ==
    /\ pc = "done"
    /\ cmd.range.some
    /\ \E i, j, k \in 1..Len(classified) :
          /\ classified[i].res.scene < cmd.range.val.start
          /\ range_contains(cmd.range.val, classified[j].res.scene)
          /\ classified[k].res.scene = cmd.range.val.end

\* a physical line that is the sentinel once its surrounding whitespace is
\* trimmed
IsSentinelLine(l) == trim(l) = Sentinel

\* the 1-based numbers of the physical lines a call read
LinesRead(e) == {segments.lines[k][1] + 1 : k \in e.from..(e.to - 1)}

\* C4: no line after a physical line that trims to `***` is read into a
\* segment handed to get_line
C4_NothingAfterSentinel ==
    \A i \in 1..Len(pulled) :
        (pulled[i].via = "next" /\ pulled[i].item.some) =>
            \A s \in 1..Len(src) :
                IsSentinelLine(src[s]) => \A n \in LinesRead(pulled[i]) : n <= s

Max(a, b) == IF a >= b THEN a ELSE b

\* C5: every accepted scene heading is returned with max(0, 4 - digits(n))
\* fillers before its numeral n, the counter after the increment
C5_FillersFlooredAtZero ==
    \A i \in 1..Len(classified) :
        LET e == classified[i]
            n == e.before + 1
        IN  Accepted(e.segment, ctx) =>
                /\ IsSceneOut(e.res)
                /\ Numeral(e.res.out) = to_string(n)
                /\ Fillers(e.res.out) = Max(0, 4 - Len(to_string(n)))

\* the title or the subtitle pull returned None
FrontMissing ==
    \E i \in 1..2 : i <= Len(pulled) /\ ~pulled[i].item.some

\* a get_line call returned an error
ClassificationFailed ==
    \E i \in 1..Len(classified) : classified[i].res.kind = "err"

\* C6: a missing title or subtitle, or a segment that fails classification,
\* ends gen_html in its error return with no fs::write made, and a missing
\* title or subtitle does so before any get_line call; whatever is written
\* is a whole document
C6_CompleteOrNothing ==
    /\ (FrontMissing \/ ClassificationFailed) => (pc = "err" /\ files = <<>>)
    /\ FrontMissing => classified = <<>>
    /\ \A i \in 1..Len(files) :
          /\ files[i].content[1] = PageOpen
          /\ files[i].content[Len(files[i].content)] = PageClose
          /\ \A j \in 1..Len(classified) : classified[j].res.kind = "ok"

\* a classification failed after fragments had been pushed, under --temp
C6_Witness ==
    /\ pc = "err"
    /\ cmd.temp
    /\ ClassificationFailed
    /\ Len(result) > Len(Preamble(ctx, cmd.range))
    /\ files = <<>>

\* the line ends in the continuation backslash
Continues(l) == l # <<>> /\ l[Len(l)] = "\\"

\* the fragment a kept line gives: its backslash removed, trimmed
FragmentOf(l) == IF Continues(l) THEN trim(SubSeq(l, 1, Len(l) - 1)) ELSE l

\* kept lines p..n are a run: all but the last continue, none is the sentinel
IsRun(ls, p, n) ==
    /\ p <= n /\ n <= Len(ls)
    /\ \A k \in p..n : ls[k][2] # Sentinel
    /\ \A k \in p..(n - 1) : Continues(ls[k][2])
    /\ ~Continues(ls[n][2])

\* C7: a next_whole call at the start of a run l1..ln of kept lines returns
\* one item: the number of l1, counted from 1, and the fragments of l1..ln in
\* order, and leaves the cursor after ln
C7_RunIsOneSegment ==
    \A i \in 1..Len(pulled) :
        LET e  == pulled[i]
            ls == segments.lines
        IN  \A n \in e.from..Len(ls) :
                (~e.term /\ IsRun(ls, e.from, n)) =>
                    /\ e.whole = Some(<<ls[e.from][1] + 1,
                                        [k \in 1..(n - e.from + 1) |->
                                            FragmentOf(ls[e.from + k - 1][2])]>>)
                    /\ e.to = n + 1

\* a run of two lines whose first has its backslash before a comment, and a
\* line whose only backslash is inside its comment, each pulled
C7_Witness ==
    \E i, j \in 1..Len(pulled) :
        /\ pulled[i].whole.some /\ pulled[j].whole.some
        /\ src[pulled[i].whole.val[1]] = <<"b"," ","c"," ","\\"," ","*"," ","c">>
        /\ Len(pulled[i].whole.val[2]) = 2
        /\ src[pulled[j].whole.val[1]] = <<"a"," ","*"," ","c"," ","\\">>
        /\ pulled[j].whole.val[2] = <<<<"a">>>>

\* the part of a physical line before its first "* ", without the
\* whitespace around it
Stripped(l) ==
    LET cuts == {i \in 1..(Len(l) - 1) : l[i] = "*" /\ l[i + 1] = " "}
        upto == IF cuts = {} THEN Len(l)
                ELSE (CHOOSE i \in cuts : \A j \in cuts : i <= j) - 1
        ink  == {i \in 1..upto : l[i] \notin {" ", "\t"}}
    IN  IF ink = {} THEN <<>>
        ELSE SubSeq(l, CHOOSE i \in ink : \A j \in ink : i <= j,
                       CHOOSE i \in ink : \A j \in ink : i >= j)

\* the numbers, from 1, of the physical lines that are not empty once stripped
Surviving == {i \in 1..Len(src) : Stripped(src[i]) # <<>>}

\* C8: the collected lines are the stripped physical lines that are not empty,
\* in order, each with its own position; a segment reports the number, from
\* 1, of its first physical line, dropped lines counted
C8_LinesKeepTheirNumbers ==
    pc \notin {"read", "panic"} =>
        /\ Len(segments.lines) = Cardinality(Surviving)
        /\ \A k \in 1..Len(segments.lines) :
              LET n == segments.lines[k][1] + 1
              IN  /\ n \in Surviving
                  /\ Cardinality({i \in Surviving : i <= n}) = k
                  /\ segments.lines[k][2] = Stripped(src[n])
        /\ \A i \in 1..Len(pulled) :
              pulled[i].whole.some =>
                  LET n == pulled[i].whole.val[1]
                  IN  /\ n \in Surviving
                      /\ Cardinality({j \in Surviving : j <= n}) = pulled[i].from
                      /\ pulled[i].whole.val[2][1] = FragmentOf(Stripped(src[n]))

\* a segment pulled from line 3, a blank line and a comment line before it
C8_Witness ==
    /\ Len(src) >= 3
    /\ src[1] = <<>>
    /\ src[2] = <<"*"," ","c">>
    /\ \E i \in 1..Len(pulled) :
          /\ pulled[i].whole.some
          /\ pulled[i].whole.val[1] = 3
          /\ pulled[i].from = 1

\* C9: a line the `_` arm returns as a scene heading and the same line behind
\* `scene`, classified from the same counter, both come back as scene
\* headings, both with the counter one up, both with the same rendering
C9_KeywordChangesNothing ==
    (Len(classified) = 2
        /\ classified[1].segment.mode \notin Keywords
        /\ IsSceneOut(classified[1].res)) =>
            /\ classified[2].before = classified[1].before
            /\ IsSceneOut(classified[2].res)
            /\ classified[1].res.scene = classified[1].before + 1
            /\ classified[2].res.scene = classified[2].before + 1
            /\ classified[2].res.out = classified[1].res.out

\* C10: once a call has read the sentinel line, every later call returns
\* None
C10_TerminatedForGood ==
    \A i, j \in 1..Len(pulled) :
        (i < j /\ pulled[i].met) => ~pulled[j].item.some

\* the indices of the whitespace characters of a fragment
Blanks(f) == {i \in 1..Len(f) : f[i] \in {" ", "\t"}}

\* the first whitespace-delimited token of a first fragment
FirstToken(f) ==
    IF Blanks(f) = {} THEN f
    ELSE SubSeq(f, 1, (CHOOSE i \in Blanks(f) : \A j \in Blanks(f) : i <= j) - 1)

\* what follows the first token, trimmed, as a list: empty when the fragment
\* is one token
Remainder(f) ==
    IF Blanks(f) = {} THEN <<>>
    ELSE <<trim(SubSeq(f, (CHOOSE i \in Blanks(f) : \A j \in Blanks(f) : i <= j) + 1,
                       Len(f)))>>

\* C11: the Segment Iterator::next builds from an item of next_whole has the
\* item's line, the first token of the first fragment as mode, and as text
\* the trimmed remainder of the first fragment (when there is one) followed
\* by the continuation fragments 2..n in order
C11_NoTextLost ==
    \A i \in 1..Len(pulled) :
        (pulled[i].via = "next" /\ pulled[i].item.some) =>
            LET w == pulled[i].whole.val
                g == pulled[i].item.val
            IN  /\ pulled[i].whole.some
                /\ g.line = w[1]
                /\ g.mode = FirstToken(w[2][1])
                /\ g.text = Remainder(w[2][1]) \o Tail(w[2])

====
